---- MODULE Spec2Model ----
(***************************************************************************)
(* Model of AppSyncModelJavaVisitor (appsync-java-visitor.ts): the Java    *)
(* class emitter, its visitor-level import bookkeeping, its field          *)
(* annotations, and the behaviour of the Java code it emits (Builder,      *)
(* equals, hashCode).                                                      *)
(*                                                                         *)
(* Identifiers are sequences of one-character strings so that the case     *)
(* conversions are computed, not assumed.  Qualified Java type names are   *)
(* sequences of their dot-separated segments.                              *)
(***************************************************************************)
EXTENDS Integers, Sequences, FiniteSets, TLC

VARIABLES
  model,              \* SpecEmit / SpecBuilder / SpecEquals: the CodeGenModel (its fields)
  classDeclaration,   \* SpecEmit: what generateClass(model) produced
  selectedModels,     \* SpecVisitor: getSelectedModels(), in order
  generateMode,       \* SpecVisitor: "loader" | "enum" | "class"
  additionalPackages, \* SpecVisitor: this.additionalPackages, in insertion order
  lastCall,           \* SpecVisitor / SpecBuilder: record describing the last call
  slots,              \* SpecBuilder: the Builder's private slots
  held,               \* SpecBuilder: interface type of the reference the caller holds
  raised,             \* SpecBuilder: exception raised by the last call, or NoException
  instance,           \* SpecBuilder: the instance build() returned, or NoInstance
  supplied,           \* SpecBuilder: last value the caller supplied per slot (history)
  idRejected,         \* SpecBuilder: id() has raised on this Builder (history)
  objA,               \* SpecEquals: an instance of the emitted class
  objB,               \* SpecEquals: the argument of equals
  equalsResult,       \* SpecEquals: result of objA.equals(objB), or NotCalled
  hashA,              \* SpecEquals: result of the last objA.hashCode(), or NotCalled
  hashB,              \* SpecEquals: result of the last objB.hashCode(), or NotCalled
  codeGenField,       \* SpecAnnotations: the CodeGenField given to generateFieldAnnotations
  annotations         \* SpecAnnotations: the annotations it returned, or NotRendered

emitVars    == <<model, classDeclaration>>
visitorVars == <<selectedModels, generateMode, additionalPackages, lastCall>>
builderVars == <<slots, held, raised, instance, supplied, idRejected>>
equalsVars  == <<objA, objB, equalsResult, hashA, hashB>>
annotationVars == <<codeGenField, annotations>>
vars == <<model, classDeclaration, selectedModels, generateMode, additionalPackages,
          lastCall, slots, held, raised, instance, supplied, idRejected,
          objA, objB, equalsResult, hashA, hashB, codeGenField, annotations>>

----------------------------------------------------------------------------
(* Bounds *)

MaxFields == 3      \* fields per model, the identity field included
MaxSelected == 2    \* models selected for one visitor

----------------------------------------------------------------------------
(* Characters and identifiers *)

LowerChars == <<"b", "d", "e", "i", "l", "o", "p", "s", "t", "u">>
UpperChars == <<"B", "D", "E", "I", "L", "O", "P", "S", "T", "U">>

IndexIn(c, chars) == CHOOSE i \in 1..Len(chars) : chars[i] = c
IsLower(c) == \E i \in 1..Len(LowerChars) : LowerChars[i] = c
IsUpper(c) == \E i \in 1..Len(UpperChars) : UpperChars[i] = c
ToUpper(c) == IF IsLower(c) THEN UpperChars[IndexIn(c, LowerChars)] ELSE c
ToLower(c) == IF IsUpper(c) THEN LowerChars[IndexIn(c, UpperChars)] ELSE c

NameId     == <<"i", "d">>
NameTitle  == <<"t", "i", "t", "l", "e">>
NameBuild  == <<"b", "u", "i", "l", "d">>
NamePostId == <<"p", "o", "s", "t", "I", "d">>
NamePost_id == <<"p", "o", "s", "t", "_", "i", "d">>
LiteralBuild == <<"B", "u", "i", "l", "d">>

\* change-case: a word ends at a separator, between a lower-case and an
\* upper-case letter, and before the last capital of a run of capitals.
WordBoundary(s, i) ==
  /\ i > 1
  /\ \/ IsLower(s[i - 1]) /\ IsUpper(s[i])
     \/ IsUpper(s[i - 1]) /\ IsUpper(s[i]) /\ i < Len(s) /\ IsLower(s[i + 1])

RECURSIVE SplitWords(_, _, _, _)
SplitWords(s, i, cur, acc) ==
  IF i > Len(s) THEN (IF cur = <<>> THEN acc ELSE Append(acc, cur))
  ELSE IF ~(IsLower(s[i]) \/ IsUpper(s[i]))
    THEN SplitWords(s, i + 1, <<>>, IF cur = <<>> THEN acc ELSE Append(acc, cur))
  ELSE IF WordBoundary(s, i) /\ cur # <<>>
    THEN SplitWords(s, i + 1, <<ToLower(s[i])>>, Append(acc, cur))
  ELSE SplitWords(s, i + 1, Append(cur, ToLower(s[i])), acc)

RECURSIVE JoinCapitalized(_)
JoinCapitalized(words) ==
  IF words = <<>> THEN <<>>
  ELSE <<ToUpper(Head(words)[1])>> \o Tail(Head(words)) \o JoinCapitalized(Tail(words))

pascalCaseOf(s) == JoinCapitalized(SplitWords(s, 1, <<>>, <<>>))

camelCaseOf(s) ==
  LET p == pascalCaseOf(s)
  IN IF p = <<>> THEN p ELSE <<ToLower(p[1])>> \o Tail(p)

\* The conversions, computed once for every identifier of the model.
Identifiers == {NameId, NameTitle, NameBuild, NamePostId, NamePost_id, LiteralBuild}
PascalCaseTable == [s \in Identifiers |-> pascalCaseOf(s)]
CamelCaseTable == [s \in Identifiers |-> camelCaseOf(s)]
pascalCase(s) == PascalCaseTable[s]
camelCase(s) == CamelCaseTable[s]

----------------------------------------------------------------------------
(* Models *)

READ_ONLY_FIELDS == {NameId}

IdField == [name |-> NameId, type |-> "ID", isNullable |-> FALSE]

FieldsOver(names, types) == [name : names, type : types, isNullable : BOOLEAN]

\* A model is its ordered field list: distinct names, exactly one identity
\* field (ID, non-nullable), at any position.
ModelsOver(names, types, maxLen) ==
  LET F == FieldsOver(names, types) \cup {IdField}
  IN { m \in UNION { [1..n -> F] : n \in 1..maxLen } :
         /\ \A i, j \in 1..Len(m) : i # j => m[i].name # m[j].name
         /\ \E i \in 1..Len(m) : m[i] = IdField }

EmitNames == {NameTitle, NameBuild, NamePostId, NamePost_id}
EmitTypes == {"String", "AWSDate"}
Models == ModelsOver(EmitNames, EmitTypes, MaxFields)

\* super.getNativeType: the schema's native-type mapping.
SuperNativeType(field) ==
  CASE field.type = "ID" -> <<"String">>
    [] field.type = "String" -> <<"String">>
    [] field.type = "AWSDate" -> <<"java", "util", "Date">>

\* getNativeType, its returned simple name ...
getNativeType(field) ==
  LET nativeType == SuperNativeType(field)
  IN IF Len(nativeType) > 1 THEN nativeType[Len(nativeType)] ELSE nativeType[1]

\* Mutant: registers the simple name instead of the qualified one.
getNativeTypeAddsSimpleName(field) ==
  LET nativeType == SuperNativeType(field)
  IN IF Len(nativeType) > 1 THEN << <<nativeType[Len(nativeType)]>> >> ELSE <<>>

\* ... and the qualified names it adds to this.additionalPackages.
getNativeTypeAdds(field) ==
  LET nativeType == SuperNativeType(field)
  IN IF Len(nativeType) > 1 THEN <<nativeType>> ELSE <<>>

getFieldName(field) == camelCase(field.name)
getFieldGetterName(field) == <<"g", "e", "t">> \o pascalCase(field.name)
getStepFunctionName(field) == camelCase(field.name)
getStepFunctionArgumentName(field) == camelCase(field.name)
getStepInterfaceName(nextFieldName) ==
  <<"I">> \o pascalCase(nextFieldName) \o <<"S", "t", "e", "p">>

IsNonNullable(field) == ~field.isNullable
IsNullable(field) == field.isNullable
IsNotReadOnly(field) == field.name \notin READ_ONLY_FIELDS

MapSeq(s, Op(_)) == [i \in 1..Len(s) |-> Op(s[i])]
Range(s) == {s[i] : i \in 1..Len(s)}

----------------------------------------------------------------------------
(* The class emitter.  A declaration block is the record of what was added *)
(* to it, in the order it was added.                                        *)

ModelClassName == <<"P", "o", "s", "t">>

\* generateField, for every field: the private final members of the class.
generateFields(m) ==
  [i \in 1..Len(m) |-> [name |-> getFieldName(m[i]), type |-> getNativeType(m[i])]]

nonIdFields(m) ==
  LET nonNullableFields == SelectSeq(m, IsNonNullable)
  IN SelectSeq(nonNullableFields, IsNotReadOnly)

generateStepBuilderInterfaces(m) ==
  LET nullableFields == SelectSeq(m, IsNullable)
      steps == nonIdFields(m)
      interfaces ==
        [idx \in 1..Len(steps) |->
          LET field == steps[idx]
              isLastField == (Len(steps) = idx)
              returnType == IF isLastField THEN LiteralBuild ELSE steps[idx + 1].name
          IN [name |-> getStepInterfaceName(field.name),
              methods |-> << [name |-> getStepFunctionName(field),
                              returnType |-> getStepInterfaceName(returnType),
                              argumentType |-> getNativeType(field),
                              argumentName |-> getStepFunctionArgumentName(field)] >>]]
      builderBody ==
        << [name |-> NameBuild, returnType |-> ModelClassName,
            argumentType |-> "", argumentName |-> <<>>],
           [name |-> NameId, returnType |-> getStepInterfaceName(LiteralBuild),
            argumentType |-> "String", argumentName |-> NameId] >>
        \o [i \in 1..Len(nullableFields) |->
             [name |-> getFieldName(nullableFields[i]),
              returnType |-> getStepInterfaceName(LiteralBuild),
              argumentType |-> getNativeType(nullableFields[i]),
              argumentName |-> getFieldName(nullableFields[i])]]
      builder == [name |-> getStepInterfaceName(LiteralBuild), methods |-> builderBody]
  IN interfaces \o <<builder>>

\* Mutant: the Builder's step list keeps the identity field.
stepFieldsKeepingId(m) == SelectSeq(m, IsNonNullable)

stepFields(m) ==
  LET nonNullableFields == SelectSeq(m, IsNonNullable)
  IN SelectSeq(nonNullableFields, IsNotReadOnly)

\* The Builder's private instance fields (lines 288-292).
builderMembers(m) ==
  LET nonNullableFields == SelectSeq(m, IsNonNullable)
      nullableFields == SelectSeq(m, IsNullable)
  IN MapSeq(nonNullableFields \o nullableFields, getFieldName)

\* The arguments build() passes to the constructor (line 309).
buildParams(m) == MapSeq(m, getFieldName)

\* The step methods of the Builder, one per step field (lines 322-341).
builderStepMethods(m) ==
  LET fields == stepFields(m)
  IN [idx \in 1..Len(fields) |->
       LET field == fields[idx]
           isLastStep == (idx = Len(fields))
       IN [name |-> getStepFunctionName(field),
           returnType |-> IF isLastStep THEN getStepInterfaceName(LiteralBuild)
                          ELSE getStepInterfaceName(fields[idx + 1].name),
           argumentName |-> getStepFunctionArgumentName(field),
           requireNonNull |-> getFieldName(field),
           assigns |-> getFieldName(field)]]

\* The setters of the nullable fields (lines 343-361).
builderSetterMethods(m) ==
  LET nullableFields == SelectSeq(m, IsNullable)
  IN [i \in 1..Len(nullableFields) |->
       [name |-> getStepFunctionName(nullableFields[i]),
        returnType |-> getStepInterfaceName(LiteralBuild),
        argumentName |-> getStepFunctionArgumentName(nullableFields[i]),
        assigns |-> getFieldName(nullableFields[i])]]

\* generateBuilderClass.  stepFields[0].name (line 298) is evaluated for
\* every model; with no step field stepFields[0] is undefined and reading
\* .name of it throws a TypeError before anything is nested in the class.
builderClassThrows(m) == stepFields(m) = <<>>

generateBuilderClass(m) ==
  IF builderClassThrows(m)
  THEN [threw |-> "TypeError"]
  ELSE [threw |-> "no",
        implements |-> MapSeq(MapSeq(stepFields(m), LAMBDA f : f.name), getStepInterfaceName)
                         \o <<getStepInterfaceName(LiteralBuild)>>,
        members |-> builderMembers(m),
        builderReturnType |-> getStepInterfaceName(stepFields(m)[1].name),
        buildParams |-> buildParams(m),
        stepMethods |-> builderStepMethods(m),
        setterMethods |-> builderSetterMethods(m),
        idReturnType |-> getStepInterfaceName(LiteralBuild)]

generateGetters(m) ==
  [i \in 1..Len(m) |-> [name |-> getFieldGetterName(m[i]), returns |-> getFieldName(m[i])]]

\* Mutant: the constructor takes the required fields first.
generateConstructorRequiredFirst(m) ==
  LET fields == SelectSeq(m, IsNonNullable) \o SelectSeq(m, IsNullable)
  IN [arguments |-> MapSeq(fields, getFieldName),
      assigns |-> [i \in 1..Len(fields) |->
                    [member |-> getFieldName(fields[i]), from |-> getFieldName(fields[i])]]]

\* generateConstructor: the positional arguments, and the member each one
\* is assigned to (this.f = f).
generateConstructor(m) ==
  [arguments |-> MapSeq(m, getFieldName),
   assigns |-> [i \in 1..Len(m) |-> [member |-> getFieldName(m[i]), from |-> getFieldName(m[i])]]]

\* Mutant: equals leaves out the last field.
generateEqualsMethodSkippingLast(m) == MapSeq(SubSeq(m, 1, Len(m) - 1), getFieldGetterName)

\* generateEqualsMethod: the getters compared, in order.
generateEqualsMethod(m) == MapSeq(m, getFieldGetterName)

\* generateHashCodeMethod: the getters appended to the StringBuilder, in order.
generateHashCodeMethod(m) == MapSeq(m, getFieldGetterName)

NoClass == [status |-> "none"]

\* Whether generateClass(m) throws instead of returning the class text.
classThrows(m) == builderClassThrows(m)

generateClass(m) ==
  LET builder == generateBuilderClass(m)
  IN IF builder.threw # "no"
     THEN [status |-> builder.threw]
     ELSE [status |-> "ok",
           members |-> generateFields(m),
           interfaces |-> generateStepBuilderInterfaces(m),
           builder |-> builder,
           getters |-> generateGetters(m),
           constructor |-> generateConstructor(m),
           equals |-> generateEqualsMethod(m),
           hashCode |-> generateHashCodeMethod(m)]

----------------------------------------------------------------------------
(* SpecEmit: generateClass applied to every model of the family.            *)

OtherInit ==
  /\ selectedModels = <<>> /\ generateMode = "class"
  /\ additionalPackages = <<>> /\ lastCall = [op |-> "none"]

EmitInit ==
  /\ model \in Models
  /\ classDeclaration = NoClass
  /\ OtherInit
  /\ slots = <<>> /\ held = <<>> /\ raised = [type |-> "none"] /\ instance = [class |-> <<>>]
  /\ supplied = <<>> /\ idRejected = FALSE
  /\ objA = <<>> /\ objB = <<>> /\ equalsResult = <<>>
  /\ hashA = <<>> /\ hashB = <<>>
  /\ codeGenField = <<>> /\ annotations = <<>>

GenerateClass ==
  /\ classDeclaration = NoClass
  /\ classDeclaration' = generateClass(model)
  /\ UNCHANGED <<model, visitorVars, builderVars, equalsVars, annotationVars>>

EmitNext == GenerateClass

SpecEmit == EmitInit /\ [][EmitNext]_vars

----------------------------------------------------------------------------
(* Claims about the emitted declarations (SpecEmit)                         *)

Emitted == classDeclaration.status = "ok"
FieldOrder == MapSeq(model, getFieldName)
GetterOrder == MapSeq(model, getFieldGetterName)
StepInterfaces == SubSeq(classDeclaration.interfaces, 1, Len(classDeclaration.interfaces) - 1)
TerminalInterface == classDeclaration.interfaces[Len(classDeclaration.interfaces)]
StepReturn(i) == classDeclaration.interfaces[i].methods[1].returnType

\* C1: with k >= 1 required non-identity fields, the emitted interfaces are k
\* pairwise distinct step interfaces followed by the terminal interface, step
\* i returns step i+1 (the last one the terminal interface), and no interface
\* is the return type of two step methods.
C1_StepChainIsSimplePath ==
  (classDeclaration # NoClass /\ Len(nonIdFields(model)) >= 1) =>
    /\ Emitted
    /\ LET ifs == classDeclaration.interfaces
           k == Len(nonIdFields(model))
       IN /\ Len(ifs) = k + 1
          /\ \A i, j \in 1..(k + 1) : i # j => ifs[i].name # ifs[j].name
          /\ \A i \in 1..k : Len(ifs[i].methods) = 1
          /\ \A i \in 1..k : StepReturn(i) = ifs[i + 1].name
          /\ \A i, j \in 1..k : i # j => StepReturn(i) # StepReturn(j)

\* C2: with no required field besides the identity, class emission completes
\* and the builder's entry method returns the terminal Build interface.
C2_NoRequiredFieldEntersAtBuild ==
  (classDeclaration # NoClass /\ nonIdFields(model) = <<>>) =>
    /\ Emitted
    /\ classDeclaration.builder.builderReturnType = getStepInterfaceName(LiteralBuild)

\* C3 (as claimed): constructor arguments, Builder slots, build() arguments
\* and the fields equals and hashCode visit are all in the model's field order.
C3_AllOrdersAreFieldOrder ==
  Emitted =>
    /\ classDeclaration.constructor.arguments = FieldOrder
    /\ classDeclaration.builder.members = FieldOrder
    /\ classDeclaration.builder.buildParams = FieldOrder
    /\ classDeclaration.equals = GetterOrder
    /\ classDeclaration.hashCode = GetterOrder

IsStablePartition(slotNames) ==
  \* slotNames lists every field once, the non-nullable ones before the
  \* nullable ones, each group in field order
  \E pos \in [1..Len(model) -> 1..Len(model)] :
    /\ \A i, j \in 1..Len(model) : i # j => pos[i] # pos[j]
    /\ Len(slotNames) = Len(model)
    /\ \A i \in 1..Len(model) : slotNames[pos[i]] = getFieldName(model[i])
    /\ \A i, j \in 1..Len(model) :
         (model[i].isNullable = model[j].isNullable /\ i < j) => pos[i] < pos[j]
    /\ \A i, j \in 1..Len(model) :
         (~model[i].isNullable /\ model[j].isNullable) => pos[i] < pos[j]

\* C3 (amended): in every emitted class the constructor's arguments (and the
\* members they are assigned to), the arguments build() passes, and the
\* getters equals and hashCode visit are in field order; the Builder's slots
\* are declared required-first: the non-nullable fields in field order, then
\* the nullable fields in field order.
C3_OrdersFieldOrderSlotsRequiredFirst ==
  Emitted =>
    /\ classDeclaration.constructor.arguments = FieldOrder
    /\ MapSeq(classDeclaration.constructor.assigns, LAMBDA a : a.member) = FieldOrder
    /\ classDeclaration.builder.buildParams = FieldOrder
    /\ classDeclaration.equals = GetterOrder
    /\ classDeclaration.hashCode = GetterOrder
    /\ IsStablePartition(classDeclaration.builder.members)

\* A class was emitted for a model with a nullable field before a non-nullable one.
C3_Witness ==
  /\ Emitted
  /\ \E i, j \in 1..Len(model) : i < j /\ model[i].isNullable /\ ~model[j].isNullable
  /\ classDeclaration.builder.members # FieldOrder

\* C10: the step list of the interface chain and the step list of the
\* Builder agree; the Builder implements exactly the emitted interfaces, in
\* order, and has one step method per step interface with the same name and
\* the same return interface.
C10_BuilderAgreesWithInterfaces ==
  /\ classDeclaration # NoClass => nonIdFields(model) = stepFields(model)
  /\ Emitted =>
       LET ifs == classDeclaration.interfaces
           b == classDeclaration.builder
       IN /\ b.implements = MapSeq(ifs, LAMBDA x : x.name)
          /\ Len(b.stepMethods) = Len(ifs) - 1
          /\ \A i \in 1..Len(b.stepMethods) :
               /\ b.stepMethods[i].name = ifs[i].methods[1].name
               /\ b.stepMethods[i].returnType = ifs[i].methods[1].returnType

\* A class with at least two step interfaces was emitted.
C10_Witness ==
  /\ Emitted
  /\ Len(classDeclaration.interfaces) >= 3
  /\ Len(classDeclaration.builder.stepMethods) >= 2

----------------------------------------------------------------------------
(* SpecVisitor: generate, generateClasses and generateClass called in any   *)
(* order on one visitor.                                                     *)

VisitorNames == {NameTitle}
VisitorTypes == {"String", "AWSDate"}
VisitorModels == ModelsOver(VisitorNames, VisitorTypes, MaxFields)

CLASS_IMPORT_PACKAGES == << <<"com", "amplifyframework", "core", "model", "Model">> >>
LOADER_IMPORT_PACKAGES == << <<"com", "amplifyframework", "core", "model", "ModelProvider">> >>
BlankLine == <<"">>

\* Set.add on an insertion-ordered set.
SetAdd(pkgs, p) == IF p \in Range(pkgs) THEN pkgs ELSE Append(pkgs, p)

RECURSIVE SetAddAll(_, _)
SetAddAll(pkgs, ps) ==
  IF ps = <<>> THEN pkgs ELSE SetAddAll(SetAdd(pkgs, Head(ps)), Tail(ps))

RECURSIVE FlattenAdds(_)
FlattenAdds(fields) ==
  IF fields = <<>> THEN <<>>
  ELSE getNativeTypeAdds(Head(fields)) \o FlattenAdds(Tail(fields))

\* The additionalPackages.add calls of one generateClass(m): generateField
\* resolves the type of every field (line 165) before anything can throw, and
\* every later getNativeType call resolves one of the same fields again.
classAdds(m) == FlattenAdds(m)

\* Qualified type names the fields of m resolve to.
QualifiedTypesOf(m) ==
  {SuperNativeType(m[i]) : i \in {j \in 1..Len(m) : Len(SuperNativeType(m[j])) > 1}}

\* generatePackageHeader: the rendered import lines.
generatePackageHeader(pkgs) == pkgs \o <<BlankLine>> \o CLASS_IMPORT_PACKAGES

\* The forEach of generateClasses from model i on: stops at the first
\* generateClass that throws.
RECURSIVE emitSelected(_, _, _)
emitSelected(models, i, acc) ==
  IF i > Len(models) THEN acc
  ELSE LET m == models[i]
           after == [pkgs |-> SetAddAll(acc.pkgs, classAdds(m)),
                     startSets |-> Append(acc.startSets, acc.pkgs),
                     resolved |-> acc.resolved \cup QualifiedTypesOf(m),
                     threw |-> classThrows(m)]
       IN IF after.threw THEN after ELSE emitSelected(models, i + 1, after)

generateClasses(models, pkgs) ==
  LET done == emitSelected(models, 1, [pkgs |-> pkgs, startSets |-> <<>>,
                                       resolved |-> {}, threw |-> FALSE])
  IN [pkgs |-> done.pkgs, startSets |-> done.startSets, resolved |-> done.resolved,
      threw |-> done.threw, rendered |-> ~done.threw,
      imports |-> IF done.threw THEN <<>> ELSE generatePackageHeader(done.pkgs)]

VisitorInit ==
  /\ selectedModels \in UNION { [1..n -> VisitorModels] : n \in 0..MaxSelected }
  /\ generateMode \in {"loader", "enum", "class"}
  /\ additionalPackages = <<>>
  /\ lastCall = [op |-> "none", threw |-> FALSE, rendered |-> FALSE, imports |-> <<>>,
                 startSets |-> <<>>, resolved |-> {}, everResolved |-> {}]
  /\ model = <<>> /\ classDeclaration = NoClass
  /\ slots = <<>> /\ held = <<>> /\ raised = [type |-> "none"] /\ instance = [class |-> <<>>]
  /\ supplied = <<>> /\ idRejected = FALSE
  /\ objA = <<>> /\ objB = <<>> /\ equalsResult = <<>>
  /\ hashA = <<>> /\ hashB = <<>>
  /\ codeGenField = <<>> /\ annotations = <<>>

VisitorUnchanged ==
  UNCHANGED <<selectedModels, generateMode, emitVars, builderVars, equalsVars, annotationVars>>

\* generateClass(m), a public method, on any model
CallGenerateClass(m) ==
  /\ additionalPackages' = SetAddAll(additionalPackages, classAdds(m))
  /\ lastCall' = [op |-> "generateClass", threw |-> classThrows(m),
                  rendered |-> FALSE, imports |-> <<>>,
                  startSets |-> <<additionalPackages>>,
                  resolved |-> QualifiedTypesOf(m),
                  everResolved |-> lastCall.everResolved \cup QualifiedTypesOf(m)]
  /\ VisitorUnchanged

CallGenerateClasses ==
  LET r == generateClasses(selectedModels, additionalPackages)
  IN /\ additionalPackages' = r.pkgs
     /\ lastCall' = [op |-> "generateClasses", threw |-> r.threw, rendered |-> r.rendered,
                     imports |-> r.imports, startSets |-> r.startSets,
                     resolved |-> r.resolved,
                     everResolved |-> lastCall.everResolved \cup r.resolved]
     /\ VisitorUnchanged

\* generate() when _parsedConfig.generate is 'loader'
CallGenerateLoader ==
  /\ generateMode = "loader"
  /\ lastCall' = [op |-> "generateClassLoader", threw |-> FALSE, rendered |-> TRUE,
                  imports |-> LOADER_IMPORT_PACKAGES, startSets |-> <<>>,
                  resolved |-> {}, everResolved |-> lastCall.everResolved]
  /\ UNCHANGED additionalPackages
  /\ VisitorUnchanged

\* generate() when the selected type is an enum: no import block
CallGenerateEnums ==
  /\ generateMode = "enum"
  /\ lastCall' = [op |-> "generateEnums", threw |-> FALSE, rendered |-> FALSE,
                  imports |-> <<>>, startSets |-> <<>>,
                  resolved |-> {}, everResolved |-> lastCall.everResolved]
  /\ UNCHANGED additionalPackages
  /\ VisitorUnchanged

\* generate() otherwise
CallGenerate ==
  /\ generateMode = "class"
  /\ CallGenerateClasses

VisitorNext ==
  \/ \E m \in VisitorModels : CallGenerateClass(m)
  \/ CallGenerateClasses
  \/ CallGenerateLoader
  \/ CallGenerateEnums
  \/ CallGenerate

SpecVisitor == VisitorInit /\ [][VisitorNext]_vars

FixedImports == Range(CLASS_IMPORT_PACKAGES) \cup Range(LOADER_IMPORT_PACKAGES) \cup {BlankLine}

\* C9 (as claimed): in a call that completes, the Additional-Import Set is
\* empty at the start of every class emission, and a rendered import block
\* names a qualified type only if a field emitted in the same call resolved
\* to it.
C9_ImportsScopedToOneEmission ==
  ~lastCall.threw =>
    /\ \A i \in 1..Len(lastCall.startSets) : lastCall.startSets[i] = <<>>
    /\ lastCall.rendered =>
         \A p \in Range(lastCall.imports) \ FixedImports : p \in lastCall.resolved

\* C9 (amended): the Additional-Import Set is empty at construction and never
\* emptied; it holds exactly the qualified type names that fields emitted so
\* far on this visitor resolved to, and the import block generateClasses
\* renders lists all of them before the fixed imports.
C9_ImportsAccumulateOverVisitor ==
  /\ Range(additionalPackages) = lastCall.everResolved
  /\ \A i \in 1..Len(lastCall.startSets) :
       Range(lastCall.startSets[i]) \subseteq Range(additionalPackages)
  /\ (lastCall.rendered /\ lastCall.op = "generateClasses") =>
       /\ lastCall.imports = additionalPackages \o <<BlankLine>> \o CLASS_IMPORT_PACKAGES
       /\ Range(lastCall.imports) \ FixedImports = lastCall.everResolved
  /\ (lastCall.rendered /\ lastCall.op = "generateClassLoader") =>
       Range(lastCall.imports) \subseteq FixedImports

\* generateClasses rendered an import block naming a type that no field
\* emitted by that call resolved to: it was registered by an earlier call.
C9_Witness ==
  /\ lastCall.rendered /\ lastCall.op = "generateClasses"
  /\ \E p \in Range(lastCall.imports) \ FixedImports : p \notin lastCall.resolved

----------------------------------------------------------------------------
(* SpecBuilder: a caller drives the emitted Builder through the interface  *)
(* its reference is typed with, as the Java type system allows.             *)

RunNames == {NameTitle, NamePost_id}
RunTypes == {"String"}
RunModels == {m \in ModelsOver(RunNames, RunTypes, MaxFields) : ~classThrows(m)}

Null == "<null>"
Unset == "<unset>"
Values == {"", "v"}
CanonicalIds == {"7f2c1e9a-0000-4000-8000-000000000001"}
RandomIds == {"7f2c1e9a-0000-4000-8000-00000000000a", "7f2c1e9a-0000-4000-8000-00000000000b"}
MalformedIds == {"not-a-uuid"}
IdArguments == CanonicalIds \cup MalformedIds \cup {Null}

\* UUID.fromString(id) returns normally
IsUuid(id) == id \in CanonicalIds \cup RandomIds

NoException == [type |-> "none"]
NoInstance == [class |-> <<>>]
IdMember == camelCase(NameId)

Emission == generateClass(model)
InterfaceNamed(n) == CHOOSE i \in Range(Emission.interfaces) : i.name = n
TerminalName == getStepInterfaceName(LiteralBuild)

\* A name in a method body is the parameter when the parameter has that
\* name, and the Builder's slot otherwise.
Resolve(name, argumentName, argument, slotValues) ==
  IF name = argumentName THEN argument ELSE slotValues[name]

\* Mutant: the step method assigns without the null check.
stepBodyUnchecked(method, argument, slotValues) ==
  [slots |-> [slotValues EXCEPT ![method.assigns] = argument], raised |-> NoException]

\* Body of a step method: Objects.requireNonNull(<field>); this.<field> = <arg>; return this;
stepBody(method, argument, slotValues) ==
  IF Resolve(method.requireNonNull, method.argumentName, argument, slotValues) = Null
  THEN [slots |-> slotValues, raised |-> [type |-> "NullPointerException"]]
  ELSE [slots |-> [slotValues EXCEPT ![method.assigns] = argument], raised |-> NoException]

\* Body of an optional setter: this.<field> = <arg>; return this;
setterBody(method, argument, slotValues) ==
  [slots |-> [slotValues EXCEPT ![method.assigns] = argument], raised |-> NoException]

IdErrorMessage == <<"Model IDs must be unique in the format of UUID.">>
IdRecoverySuggestion ==
  <<"If you are creating a new object, leave ID blank and one will be auto generated for you. ",
    "Otherwise, if you are referencing an existing object, be sure you are getting the correct ",
    "id for it. It's also possible you are referring to an item created outside of Amplify.",
    "It is currently not supported.">>

\* Mutant: the identity setter does not validate.
idBuildStepBodyUnchecked(id, slotValues) ==
  [slots |-> [slotValues EXCEPT ![IdMember] = id], raised |-> NoException]

\* idBuildStepBody: this.id = id; then UUID.fromString(id) inside the try.
idBuildStepBody(id, slotValues) ==
  LET assigned == [slotValues EXCEPT ![IdMember] = id]
  IN IF IsUuid(id)
     THEN [slots |-> assigned, raised |-> NoException]
     ELSE [slots |-> assigned,
           raised |-> [type |-> "AmplifyException",
                       message |-> IdErrorMessage,
                       cause |-> [thrownBy |-> "UUID.fromString", argument |-> id],
                       recoverySuggestion |-> IdRecoverySuggestion,
                       isRecoverable |-> FALSE]]

\* Mutant: build() passes the Builder's slots in their declaration order.
buildArgumentsInSlotOrder(builder, localId, slotValues) ==
  [i \in 1..Len(builder.members) |->
    IF builder.members[i] = IdMember THEN localId ELSE slotValues[builder.members[i]]]

\* The arguments of `new Model(...)` in build(): the local id, and the slots
\* the other names denote.
buildArguments(builder, localId, slotValues) ==
  [i \in 1..Len(builder.buildParams) |->
    IF builder.buildParams[i] = IdMember THEN localId ELSE slotValues[builder.buildParams[i]]]

\* The private constructor: this.<member> = <argument>, positionally.
construct(constructor, arguments) ==
  [class |-> ModelClassName,
   fields |-> [mem \in {constructor.assigns[i].member : i \in 1..Len(constructor.assigns)} |->
                LET a == CHOOSE i \in 1..Len(constructor.assigns) :
                           constructor.assigns[i].member = mem
                    at == CHOOSE j \in 1..Len(constructor.arguments) :
                           constructor.arguments[j] = constructor.assigns[a].from
                IN arguments[at]]]

\* A getter of the emitted class: return <member>;
Getter(emitted, object, getterName) ==
  LET g == CHOOSE x \in Range(emitted.getters) : x.name = getterName
  IN object.fields[g.returns]

BuilderInit ==
  /\ model \in RunModels
  /\ classDeclaration = NoClass
  /\ selectedModels = <<>> /\ generateMode = "class" /\ additionalPackages = <<>>
  /\ lastCall = [op |-> "none", arg |-> Null]
  /\ slots = <<>> /\ held = <<>> /\ raised = NoException /\ instance = NoInstance
  /\ supplied = <<>> /\ idRejected = FALSE
  /\ objA = <<>> /\ objB = <<>> /\ equalsResult = <<>>
  /\ hashA = <<>> /\ hashB = <<>>
  /\ codeGenField = <<>> /\ annotations = <<>>

BuilderUnchanged ==
  UNCHANGED <<model, classDeclaration, selectedModels, generateMode, additionalPackages,
              equalsVars, annotationVars>>

\* Model.builder(): return new Builder();
CallBuilder ==
  /\ slots' = [mem \in Range(Emission.builder.members) |-> Null]
  /\ supplied' = [mem \in Range(Emission.builder.members) |-> Unset]
  /\ held' = Emission.builder.builderReturnType
  /\ raised' = NoException /\ instance' = NoInstance /\ idRejected' = FALSE
  /\ lastCall' = [op |-> "builder", arg |-> Null]
  /\ BuilderUnchanged

\* The single method of the step interface the caller holds
CallStep(argument) ==
  /\ held \notin {<<>>, TerminalName}
  /\ \E declared \in Range(InterfaceNamed(held).methods) :
     \E method \in Range(Emission.builder.stepMethods) :
       /\ method.name = declared.name
       /\ LET r == stepBody(method, argument, slots)
          IN /\ slots' = r.slots
             /\ raised' = r.raised
             /\ held' = IF r.raised = NoException THEN method.returnType ELSE held
             /\ supplied' = IF r.raised = NoException
                            THEN [supplied EXCEPT ![method.assigns] = argument]
                            ELSE supplied
  /\ instance' = NoInstance
  /\ lastCall' = [op |-> "step", arg |-> argument]
  /\ UNCHANGED idRejected
  /\ BuilderUnchanged

\* A setter of an optional field, on the terminal interface
CallSetter(argument) ==
  /\ held = TerminalName
  /\ \E method \in Range(Emission.builder.setterMethods) :
       LET r == setterBody(method, argument, slots)
       IN /\ slots' = r.slots
          /\ raised' = r.raised
          /\ held' = method.returnType
          /\ supplied' = [supplied EXCEPT ![method.assigns] = argument]
  /\ instance' = NoInstance
  /\ lastCall' = [op |-> "setter", arg |-> argument]
  /\ UNCHANGED idRejected
  /\ BuilderUnchanged

\* id(String id), on the terminal interface
CallId(id) ==
  /\ held = TerminalName
  /\ LET r == idBuildStepBody(id, slots)
     IN /\ slots' = r.slots
        /\ raised' = r.raised
        /\ held' = IF r.raised = NoException THEN Emission.builder.idReturnType ELSE held
        /\ idRejected' = (idRejected \/ r.raised # NoException)
  /\ supplied' = [supplied EXCEPT ![IdMember] = id]
  /\ instance' = NoInstance
  /\ lastCall' = [op |-> "id", arg |-> id]
  /\ BuilderUnchanged

\* build(), on the terminal interface
CallBuild ==
  /\ held = TerminalName
  /\ \E random \in RandomIds :
       LET localId == IF slots[IdMember] # Null THEN slots[IdMember] ELSE random
       IN instance' = construct(Emission.constructor,
                                buildArguments(Emission.builder, localId, slots))
  /\ raised' = NoException
  /\ lastCall' = [op |-> "build", arg |-> Null]
  /\ UNCHANGED <<slots, held, supplied, idRejected>>
  /\ BuilderUnchanged

BuilderNext ==
  \/ CallBuilder
  \/ \E v \in Values \cup {Null} : CallStep(v)
  \/ \E v \in Values \cup {Null} : CallSetter(v)
  \/ \E id \in IdArguments : CallId(id)
  \/ CallBuild

SpecBuilder == BuilderInit /\ [][BuilderNext]_vars

----------------------------------------------------------------------------
(* Claims about the emitted Builder (SpecBuilder)                           *)

IdGetter == getFieldGetterName(IdField)

\* C4: after the step chain, any optional setters, optionally the identity
\* setter with canonical values, and build(), every getter of the instance
\* returns the value last supplied for its field, and no value for an
\* optional field never set.
C4_RoundTrip ==
  (instance # NoInstance /\ ~idRejected) =>
    \A i \in 1..Len(model) :
      LET slot == getFieldName(model[i])
          got == Getter(Emission, instance, getFieldGetterName(model[i]))
      IN /\ (~model[i].isNullable /\ model[i] # IdField) => supplied[slot] # Unset
         /\ supplied[slot] # Unset => got = supplied[slot]
         /\ (supplied[slot] = Unset /\ model[i].isNullable) => got = Null
         /\ (supplied[slot] = Unset /\ model[i] = IdField) => got \in RandomIds

\* An instance was built from a model that interleaves an optional field
\* before a required one, with the optional field and a canonical identity set.
C4_Witness ==
  /\ instance # NoInstance /\ ~idRejected
  /\ supplied[IdMember] \in CanonicalIds
  /\ \E i, j \in 1..Len(model) :
       /\ i < j /\ model[i].isNullable /\ ~model[j].isNullable /\ model[j] # IdField
       /\ supplied[getFieldName(model[i])] \in Values
       /\ supplied[getFieldName(model[j])] \in Values
       /\ supplied[getFieldName(model[i])] # supplied[getFieldName(model[j])]

\* C7 (as claimed): the identity setter raises the malformed-identity error
\* for a non-canonical value, with the value embedded in its message, the
\* remediation hint and a false flag; a canonical value raises nothing.
C7_IdErrorMessageEmbedsValue ==
  lastCall.op = "id" =>
    IF IsUuid(lastCall.arg) THEN raised = NoException
    ELSE /\ raised.type = "AmplifyException"
         /\ (lastCall.arg = Null \/ lastCall.arg \in Range(raised.message))
         /\ raised.recoverySuggestion = IdRecoverySuggestion
         /\ raised.isRecoverable = FALSE

\* C7 (amended): the error's message is the fixed text, which does not
\* contain the value; the value reaches the error only as the argument of
\* the UUID.fromString failure passed as its cause.
C7_IdErrorFixedMessageValueInCause ==
  lastCall.op = "id" =>
    IF IsUuid(lastCall.arg) THEN raised = NoException
    ELSE /\ raised.type = "AmplifyException"
         /\ raised.message = IdErrorMessage
         /\ lastCall.arg \notin Range(raised.message)
         /\ raised.cause = [thrownBy |-> "UUID.fromString", argument |-> lastCall.arg]
         /\ raised.recoverySuggestion = IdRecoverySuggestion
         /\ raised.isRecoverable = FALSE

\* The identity setter was called with a malformed value and raised.
C7_Witness ==
  /\ lastCall.op = "id" /\ lastCall.arg \in MalformedIds
  /\ raised.type = "AmplifyException"

\* C8: a failed identity-setter call leaves the identity slot as it was, so
\* the identity of every instance build() returns is canonically formatted,
\* also when the caller went on after id() raised.
C8_RejectedIdNeverReachesInstance ==
  instance # NoInstance => IsUuid(Getter(Emission, instance, IdGetter))

\* The required fields of the model other than the identity, in field
\* order, and the optional fields' slots.
RequiredFields == SelectSeq(model, LAMBDA f : ~f.isNullable /\ f # IdField)
OptionalSlots == {getFieldName(model[i]) : i \in {j \in 1..Len(model) : model[j].isNullable}}
Empty == ""

\* The interface a caller holds after the step of the i-th required field.
InterfaceAfter(i) ==
  IF i = Len(RequiredFields) THEN TerminalName
  ELSE getStepInterfaceName(RequiredFields[i + 1].name)

\* What the claim says of a call of the i-th required field's step method.
StepCallAsClaimed(i) ==
  LET slot == getFieldName(RequiredFields[i])
  IN IF lastCall'.arg \in {Null, Empty}
     THEN raised' # NoException /\ slots' = slots
     ELSE /\ raised' = NoException
          /\ slots' = [slots EXCEPT ![slot] = lastCall'.arg]
          /\ held' = InterfaceAfter(i)

\* What the claim says of a call of an optional field's setter.
SetterCallAsClaimed ==
  /\ raised' = NoException
  /\ held' = TerminalName
  /\ \E slot \in OptionalSlots : slots' = [slots EXCEPT ![slot] = lastCall'.arg]

\* C11: a required field's step method rejects a null or an empty value
\* without assigning, and otherwise assigns the value to that field's slot
\* only and returns the next step interface (the terminal one after the
\* last required field); an optional field's setter assigns its slot
\* whatever the value and returns the terminal interface.
C11_StepsRejectMissingOrEmpty ==
  [][/\ lastCall'.op = "step" =>
          \A i \in 1..Len(RequiredFields) :
            held = getStepInterfaceName(RequiredFields[i].name) => StepCallAsClaimed(i)
     /\ lastCall'.op = "setter" => SetterCallAsClaimed]_vars

\* C11 (amended): a step method rejects the null value only, as
\* Objects.requireNonNull does; the empty value is assigned like any other.
\* The rest is as claimed.
C11_StepsRejectNull ==
  [][/\ lastCall'.op = "step" =>
          \A i \in 1..Len(RequiredFields) :
            held = getStepInterfaceName(RequiredFields[i].name) =>
              LET slot == getFieldName(RequiredFields[i])
              IN IF lastCall'.arg = Null
                 THEN raised' # NoException /\ slots' = slots
                 ELSE /\ raised' = NoException
                      /\ slots' = [slots EXCEPT ![slot] = lastCall'.arg]
                      /\ held' = InterfaceAfter(i)
     /\ lastCall'.op = "setter" => SetterCallAsClaimed]_vars

\* A step method was called with the empty value, assigned it to its field's
\* slot and returned the next interface.
C11_Witness ==
  /\ lastCall.op = "step" /\ lastCall.arg = Empty /\ raised = NoException
  /\ \E i \in 1..Len(RequiredFields) :
       /\ slots[getFieldName(RequiredFields[i])] = Empty
       /\ held = InterfaceAfter(i)

----------------------------------------------------------------------------
(* SpecEquals: equals and hashCode of the emitted class, applied to         *)
(* instances the constructor can produce.                                    *)

NullReference == [class |-> <<>>, ref |-> "null"]
OtherObject == [class |-> <<"O", "b", "j", "e", "c", "t">>, ref |-> "other"]
NotCalled == <<>>
IdentityHashes == {11, 22}

\* Field values the private constructor can receive from build().
FieldValuesOf(m) ==
  { f \in [Range(MapSeq(m, getFieldName)) -> Values \cup CanonicalIds \cup RandomIds \cup {Null}] :
      \A i \in 1..Len(m) :
        LET v == f[getFieldName(m[i])]
        IN IF m[i] = IdField THEN v \in CanonicalIds \cup RandomIds
           ELSE IF m[i].isNullable THEN v \in Values \cup {Null}
           ELSE v \in Values }

InstancesOf(m, ref) ==
  { [class |-> ModelClassName, ref |-> ref, fields |-> f] : f \in FieldValuesOf(m) }

IsInstance(obj) == obj.class = ModelClassName

\* ObjectsCompat.equals
ObjectsCompatEquals(x, y) == x = y

\* Body of the emitted equals(Object obj)
equalsBody(emitted, this, obj) ==
  IF obj # NullReference /\ this.ref = obj.ref THEN TRUE
  ELSE IF obj = NullReference \/ this.class # obj.class THEN FALSE
  ELSE \A i \in 1..Len(emitted.equals) :
         ObjectsCompatEquals(Getter(emitted, this, emitted.equals[i]),
                             Getter(emitted, obj, emitted.equals[i]))

\* Body of the emitted hashCode(): the getters' results are appended to a
\* new StringBuilder, and the result is that StringBuilder's own hashCode()
\* (Object.hashCode, which StringBuilder does not override): the identity
\* hash the JVM gives the new object, whatever was appended.
hashCodeBody(emitted, this, identityHash) ==
  LET appended == [i \in 1..Len(emitted.hashCode) |-> Getter(emitted, this, emitted.hashCode[i])]
  IN identityHash

EqualsInit ==
  /\ model \in RunModels
  /\ objA \in InstancesOf(model, "a")
  /\ objB \in InstancesOf(model, "b") \cup {objA, NullReference, OtherObject}
  /\ equalsResult = NotCalled /\ hashA = NotCalled /\ hashB = NotCalled
  /\ classDeclaration = NoClass
  /\ selectedModels = <<>> /\ generateMode = "class" /\ additionalPackages = <<>>
  /\ lastCall = [op |-> "none"]
  /\ slots = <<>> /\ held = <<>> /\ raised = NoException /\ instance = NoInstance
  /\ supplied = <<>> /\ idRejected = FALSE
  /\ codeGenField = <<>> /\ annotations = <<>>

EqualsUnchanged ==
  UNCHANGED <<model, classDeclaration, visitorVars, builderVars, objA, objB, annotationVars>>

\* objA.equals(objB)
CallEquals ==
  /\ equalsResult' = <<equalsBody(Emission, objA, objB)>>
  /\ UNCHANGED <<hashA, hashB>>
  /\ EqualsUnchanged

\* objA.hashCode()
CallHashCodeA ==
  /\ \E h \in IdentityHashes : hashA' = <<hashCodeBody(Emission, objA, h)>>
  /\ UNCHANGED <<equalsResult, hashB>>
  /\ EqualsUnchanged

\* objB.hashCode()
CallHashCodeB ==
  /\ IsInstance(objB)
  /\ \E h \in IdentityHashes : hashB' = <<hashCodeBody(Emission, objB, h)>>
  /\ UNCHANGED <<equalsResult, hashA>>
  /\ EqualsUnchanged

EqualsNext == CallEquals \/ CallHashCodeA \/ CallHashCodeB

SpecEquals == EqualsInit /\ [][EqualsNext]_vars

SameFieldValues(x, y) ==
  \A i \in 1..Len(model) : x.fields[getFieldName(model[i])] = y.fields[getFieldName(model[i])]

DifferingFields(x, y) ==
  {i \in 1..Len(model) : x.fields[getFieldName(model[i])] # y.fields[getFieldName(model[i])]}

\* C5: equals is true for the same reference, false for null or an object
\* of another class, and for two instances of the class true exactly when
\* every field compares equal, so one differing field makes it false.
C5_EqualsIffAllFieldsEqual ==
  equalsResult # NotCalled =>
    /\ objB = objA => equalsResult = <<TRUE>>
    /\ (objB = NullReference \/ objB = OtherObject) => equalsResult = <<FALSE>>
    /\ IsInstance(objB) => (equalsResult = <<TRUE>> <=> SameFieldValues(objA, objB))
    /\ (IsInstance(objB) /\ Cardinality(DifferingFields(objA, objB)) = 1) => equalsResult = <<FALSE>>

\* equals was called on two distinct instances that differ in their last field only.
C5_Witness ==
  /\ equalsResult = <<FALSE>> /\ IsInstance(objB) /\ objB.ref # objA.ref
  /\ DifferingFields(objA, objB) = {Len(model)}
  /\ Len(model) >= 2

\* C6: two distinct instances with identical field values are equal and
\* have equal hash codes.
C6_HashConsistentWithEquals ==
  (/\ IsInstance(objB) /\ objB.ref # objA.ref /\ SameFieldValues(objA, objB)
   /\ equalsResult # NotCalled /\ hashA # NotCalled /\ hashB # NotCalled) =>
    /\ equalsResult = <<TRUE>>
    /\ hashA = hashB

----------------------------------------------------------------------------
(* SpecAnnotations: generateFieldAnnotations applied to fields that carry   *)
(* directives.  A rendered annotation is the sequence of the pieces of its  *)
(* text; every brace, parenthesis and quote is a piece of its own.  Names   *)
(* are single pieces here: generateFieldAnnotations copies them unchanged.  *)

MaxArguments == 2     \* arguments of one directive
MaxFieldNames == 2    \* names in a list-valued "fields" argument

\* The values a directive argument can have in the schema.
StringValue(s) == [kind |-> "string", string |-> s, number |-> 0, list |-> <<>>]
NumberValue(n) == [kind |-> "number", string |-> "", number |-> n, list |-> <<>>]
ListValue(l) == [kind |-> "list", string |-> "", number |-> 0, list |-> l]
Undefined == [kind |-> "undefined", string |-> "", number |-> 0, list |-> <<>>]

\* JavaScript truthiness, util.isArray and template-literal conversion.
Truthy(v) ==
  CASE v.kind = "string" -> v.string # ""
    [] v.kind = "number" -> v.number # 0
    [] v.kind = "list" -> TRUE
    [] v.kind = "undefined" -> FALSE
isArray(v) == v.kind = "list"

RECURSIVE JoinPieces(_, _)
JoinPieces(texts, separator) ==
  IF texts = <<>> THEN <<>>
  ELSE IF Len(texts) = 1 THEN texts[1]
  ELSE texts[1] \o separator \o JoinPieces(Tail(texts), separator)

Stringify(v) ==
  CASE v.kind = "string" -> <<v.string>>
    [] v.kind = "number" -> <<ToString(v.number)>>
    [] v.kind = "list" -> JoinPieces([i \in 1..Len(v.list) |-> <<v.list[i]>>], <<",">>)
    [] v.kind = "undefined" -> <<"undefined">>

Quoted(pieces) == <<"\"">> \o pieces \o <<"\"">>

\* annotation.arguments[argName]; Object.keys(arguments) is the order of
\* the records of the sequence.
ArgumentOf(arguments, argName) ==
  IF \E i \in 1..Len(arguments) : arguments[i].name = argName
  THEN arguments[CHOOSE i \in 1..Len(arguments) : arguments[i].name = argName].value
  ELSE Undefined

NamedArguments == {"name", "keyField", "sortField", "keyName"}
IsNamedArgument(argument) == argument.name \in NamedArguments

\* `fields = {{${fieldArgs}}` (line 577): the template's own characters
\* are two opening braces before the names and one closing brace after.
fieldsArgument(fields) ==
  LET fieldArgs == JoinPieces([i \in 1..Len(fields.list) |-> Quoted(<<fields.list[i]>>)],
                              <<", ">>)
  IN <<"fields = ", "{", "{">> \o fieldArgs \o <<"}">>

\* connectionArgs of one connection directive (lines 566-578).
connectionArgs(annotation) ==
  LET named == SelectSeq(annotation.arguments, IsNamedArgument)
      limit == ArgumentOf(annotation.arguments, "limit")
      fields == ArgumentOf(annotation.arguments, "fields")
  IN [i \in 1..Len(named) |->
        <<named[i].name, " = ">> \o Quoted(Stringify(named[i].value))]
     \o (IF Truthy(limit) THEN << <<"limit = ">> \o Stringify(limit) >> ELSE <<>>)
     \o (IF Truthy(fields) /\ isArray(fields) THEN <<fieldsArgument(fields)>> ELSE <<>>)

\* What the switch pushes for one directive (lines 564-583).
directiveAnnotations(annotation) ==
  IF annotation.name = "connection" /\ connectionArgs(annotation) # <<>>
  THEN << <<"Connection", "(">> \o JoinPieces(connectionArgs(annotation), <<", ">>) \o <<")">> >>
  ELSE <<>>

\* The ModelField annotation every field gets (lines 555-561).
modelFieldAnnotation(f) ==
  LET annotationArgs ==
        << <<"targetName=">> \o Quoted(<<f.name>>), <<"targetType=">> \o Quoted(<<f.type>>) >>
        \o (IF ~f.isNullable THEN << <<"isRequired = true">> >> ELSE <<>>)
  IN <<"ModelField", "(">> \o JoinPieces(annotationArgs, <<", ">>) \o <<")">>

RECURSIVE forEachDirective(_)
forEachDirective(directives) ==
  IF directives = <<>> THEN <<>>
  ELSE directiveAnnotations(Head(directives)) \o forEachDirective(Tail(directives))

generateFieldAnnotations(f) == <<modelFieldAnnotation(f)>> \o forEachDirective(f.directives)

\* The fields given to generateFieldAnnotations.
ConnectionFieldNames == {"postId", "title"}
ArgumentNames == {"name", "keyName", "limit", "fields"}
FieldsLists == UNION {[1..n -> ConnectionFieldNames] : n \in 0..MaxFieldNames}
ArgumentValues(argName) ==
  CASE argName = "name" -> {StringValue("posts")}
    [] argName = "keyName" -> {StringValue("byPost")}
    [] argName = "limit" -> {NumberValue(0), NumberValue(10)}
    [] argName = "fields" -> {ListValue(l) : l \in FieldsLists} \cup {StringValue("postId")}
DirectiveArguments ==
  LET A == UNION {[name : {k}, value : ArgumentValues(k)] : k \in ArgumentNames}
  IN {a \in UNION {[1..n -> A] : n \in 0..MaxArguments} :
        \A i, j \in 1..Len(a) : i # j => a[i].name # a[j].name}
ConnectionDirectives == [name : {"connection"}, arguments : DirectiveArguments]
AuthDirective == [name |-> "auth", arguments |-> <<>>]
DirectiveLists ==
  {<<>>, <<AuthDirective>>} \cup {<<c>> : c \in ConnectionDirectives}
    \cup {<<AuthDirective, c>> : c \in ConnectionDirectives}
AnnotatedFields ==
  [name : {"comments"}, type : {"Comment"}, isNullable : BOOLEAN, directives : DirectiveLists]

NotRendered == <<>>

AnnotationsInit ==
  /\ codeGenField \in AnnotatedFields
  /\ annotations = NotRendered
  /\ model = <<IdField>> /\ classDeclaration = NoClass
  /\ selectedModels = <<>> /\ generateMode = "class" /\ additionalPackages = <<>>
  /\ lastCall = [op |-> "none"]
  /\ slots = <<>> /\ held = <<>> /\ raised = NoException /\ instance = NoInstance
  /\ supplied = <<>> /\ idRejected = FALSE
  /\ objA = <<>> /\ objB = <<>> /\ equalsResult = <<>>
  /\ hashA = <<>> /\ hashB = <<>>

GenerateFieldAnnotations ==
  /\ annotations = NotRendered
  /\ annotations' = generateFieldAnnotations(codeGenField)
  /\ UNCHANGED <<codeGenField, emitVars, visitorVars, builderVars, equalsVars>>

AnnotationsNext == GenerateFieldAnnotations

SpecAnnotations == AnnotationsInit /\ [][AnnotationsNext]_vars

----------------------------------------------------------------------------
(* Claims about the rendered field annotations (SpecAnnotations)            *)

\* The connection directives of the field whose "fields" argument is a list.
ListConnections ==
  {i \in 1..Len(codeGenField.directives) :
     /\ codeGenField.directives[i].name = "connection"
     /\ ArgumentOf(codeGenField.directives[i].arguments, "fields").kind = "list"}

PositionsOf(text, piece) == {i \in 1..Len(text) : text[i] = piece}

\* The rendered names of a list, as the claim describes them: each name
\* quoted, in the given order, separated by commas.
NamesInOrder(text) ==
  SelectSeq(text, LAMBDA piece : piece \in ConnectionFieldNames)

\* C12: for a field with a connection directive whose "fields" argument is
\* a list, the rendered relationship annotation has exactly one opening and
\* one closing brace, and they enclose the list's names in the given order.
C12_FieldsArgumentIsBalanced ==
  annotations # NotRendered =>
    \A i \in ListConnections :
      LET list == ArgumentOf(codeGenField.directives[i].arguments, "fields").list
      IN \E k \in 1..Len(annotations) :
           LET text == annotations[k]
           IN /\ text[1] = "Connection"
              /\ Cardinality(PositionsOf(text, "{")) = 1
              /\ Cardinality(PositionsOf(text, "}")) = 1
              /\ \A open \in PositionsOf(text, "{") : \A close \in PositionsOf(text, "}") :
                   /\ open < close
                   /\ NamesInOrder(SubSeq(text, open + 1, close - 1)) = list


====
